---- MODULE Spec2Model ----
(***************************************************************************)
(* Model of PredictKfAbstract.tracked_boxes_cb                             *)
(* (track_people_py/predict_kf_abstract.py): the per-track dictionaries of *)
(* the people predictor and the one callback that mutates them.            *)
(*                                                                         *)
(* Time stamps are whole seconds.  A frequency (a Python float) is an      *)
(* exact rational in lowest terms.  The Kalman filter is deterministic, so *)
(* a filter is represented by what determines it: the state it was         *)
(* initialised with and the measurements it was fed, one predict()+update()*)
(* pair per entry.  A velocity is the pair (filter, fps) it is the product *)
(* of.  An exception leaves the callback at the statement that raised it   *)
(* and, propagating out of rclpy.spin, ends the node.                      *)
(***************************************************************************)
EXTENDS Integers, Sequences, FiniteSets, TLC

\* ---- bounds of the model ----
MaxTime == 2
MaxBoxes == 2
MaxCycles == 3
MaxInputTime == 2
MaxFpsEstTime == 2
MaxDuration == 1

MaxLongCycles == 6
MaxLiveCycles == 3

TrackIds == {7, 8}
ClassNames == {"person", "obstacle", "car"}
Times == 0..MaxTime
\* tbox.header.stamp is read once, in "stamp < window[-1]" against a stored
\* batch stamp: the earliest stamp is below every later one and the latest is
\* below none, so the two decide the comparison either way wherever it can go
\* either way.
BoxStamps == {0, MaxTime}

\* The upstream detector, in two shapes: one that reports two tracks with up
\* to MaxBoxes boxes a message (the same track twice included) for a few
\* messages, and one that follows a single track, a box a message at most,
\* for longer.  Both send any class, any box stamp and any message stamp.
Detectors ==
    {[ids |-> TrackIds, boxes |-> MaxBoxes, msgs |-> MaxCycles],
     [ids |-> {7}, boxes |-> 1, msgs |-> MaxLongCycles]}

\* The callback never compares or computes with a position outside the
\* filter, so the detections carry pairwise distinct positions: the i-th box
\* of the c-th message is seen at (c, i, 1).  The colour is opaque.
Center3d(c, i) == <<c, i, 1>>
Color(track_id) == <<track_id, 0, 0>>

RECURSIVE SeqsUpTo(_, _)
SeqsUpTo(S, n) ==
    IF n = 0 THEN {<<>>}
    ELSE LET shorter == SeqsUpTo(S, n - 1)
         IN shorter \cup {Append(s, x) : s \in {t \in shorter : Len(t) = n - 1}, x \in S}

\* track_people_msgs/TrackedBox as the callback reads it
TrackedBox(c, i, d) ==
    [track_id |-> d.track_id, class_name |-> d.class_name, stamp |-> d.stamp,
     center3d |-> Center3d(c, i), color |-> Color(d.track_id)]

\* track_people_msgs/TrackedBoxes: header.stamp and tracked_boxes, the
\* messages detector det can send as its c-th
TrackedBoxes(det, c) ==
    LET Detection == [track_id : det.ids, class_name : ClassNames, stamp : BoxStamps]
    IN {[stamp |-> t, tracked_boxes |-> [i \in DOMAIN ds |-> TrackedBox(c, i, ds[i])]] :
           t \in Times, ds \in SeqsUpTo(Detection, det.boxes)}

VARIABLES
    detector,                          \* the publisher of people/combined_detected_boxes
    input_time,                        \* self.input_time
    fps_est_time,                      \* self.fps_est_time
    duration_inactive_to_remove,       \* self.duration_inactive_to_remove
    duration_inactive_to_stop_publish, \* self.duration_inactive_to_stop_publish
    track_input_queue_dict,            \* predict_buf.track_input_queue_dict
    track_color_dict,                  \* predict_buf.track_color_dict
    track_id_kf_model_dict,            \* predict_buf.track_id_kf_model_dict
    track_id_missing_time_dict,        \* predict_buf.track_id_missing_time_dict
    track_predict_fps,                 \* self.track_predict_fps
    track_prev_predict_timestamp,      \* self.track_prev_predict_timestamp
    track_vel_hist_dict,               \* self.track_vel_hist_dict
    now,                               \* msg.header.stamp of the last callback
    alive_track_id_list,               \* local of the last callback
    track_pos_dict,                    \* local of the last callback
    track_vel_dict,                    \* local of the last callback
    raised,                            \* exception that ended the last callback
    observed,                          \* history: detections ingested per live record
    cycles                             \* history: callbacks run

vars == <<detector, input_time, fps_est_time, duration_inactive_to_remove,
          duration_inactive_to_stop_publish, track_input_queue_dict,
          track_color_dict, track_id_kf_model_dict, track_id_missing_time_dict,
          track_predict_fps, track_prev_predict_timestamp, track_vel_hist_dict,
          now, alive_track_id_list, track_pos_dict, track_vel_dict, raised,
          observed, cycles>>

\* ---- helpers: dict, deque, float ----
EmptyDict == [k \in {} |-> 0]

\* d[k] = v
Put(d, k, v) == [x \in (DOMAIN d) \cup {k} |-> IF x = k THEN v ELSE d[x]]

\* del d[k] (callers test membership first where the source does)
Del(d, k) == [x \in (DOMAIN d) \ {k} |-> d[x]]

Last(s) == s[Len(s)]

\* a deque that ignores maxlen
DequeAppend_Unbounded(q, x, maxlen) == Append(q, x)

\* deque(maxlen=n).append(x): the oldest entry leaves when the deque is full
DequeAppend(q, x, maxlen) ==
    IF Len(q) < maxlen THEN Append(q, x) ELSE Append(Tail(q), x)

Range(s) == {s[i] : i \in DOMAIN s}

Abs(i) == IF i < 0 THEN -i ELSE i

RECURSIVE Gcd(_, _)
Gcd(a, b) == IF b = 0 THEN a ELSE Gcd(b, a % b)

\* n / d as a float value: the rational in lowest terms, sign on the numerator
Div(n, d) ==
    LET g == Gcd(Abs(n), Abs(d))
        s == IF d < 0 THEN -1 ELSE 1
    IN [num |-> (s * n) \div g, den |-> (s * d) \div g]

\* np.array(queue)[:, :2]
XY(queue) == [i \in DOMAIN queue |-> <<queue[i][1], queue[i][2]>>]

\* KalmanFilter(dim_x=4, dim_z=2) with tracker.x = [x, 0, y, 0]
KalmanFilter(xy) == [x0 |-> xy, fed |-> <<>>]

\* for px in past: tracker.predict(); tracker.update(px)
PredictUpdate(tracker, past) == [tracker EXCEPT !.fed = @ \o past]

\* tracker.x.reshape(1,4)[0, [1,3]] * fps
Velocity(tracker, fps) == [kf |-> tracker, fps |-> fps]


\* ---- the callback ----
\* The dictionaries and locals the callback works on, as one record.
Self ==
    [queue |-> track_input_queue_dict, color |-> track_color_dict,
     kf |-> track_id_kf_model_dict, missing |-> track_id_missing_time_dict,
     fps |-> track_predict_fps, ts |-> track_prev_predict_timestamp,
     vel_hist |-> track_vel_hist_dict, observed |-> observed,
     alive |-> <<>>, pos |-> EmptyDict, vel |-> EmptyDict, raised |-> "none"]

\* "!=" for "==" in the second test
Tracked_NotObstacle(tbox) == tbox.class_name = "person" \/ tbox.class_name # "obstacle"

\* tbox.box.class_name == "person" or tbox.box.class_name == "obstacle"
Tracked(tbox) == tbox.class_name = "person" \/ tbox.class_name = "obstacle"

\* the box compared with the oldest stamp of the window, not the newest
WrongTimeOrder_AgainstOldest(tbox, window) == tbox.stamp < window[1]

\* Time.from_msg(tbox.header.stamp) < track_prev_predict_timestamp[track_id][-1]
WrongTimeOrder(tbox, window) == tbox.stamp < Last(window)

\* (Time.from_msg(msg.header.stamp) - window[0]).nanoseconds / 1e9
SinceOldest(window, stamp) == stamp - window[1]

\* the time taken since the newest stamp of the window, not the oldest
AverageFps_SinceNewest(window, stamp) == Div(Len(window), stamp - Last(window))

\* len(window) / ((msg.header.stamp - window[0]).nanoseconds / 1e9)
AverageFps(window, stamp) == Div(Len(window), SinceOldest(window, stamp))

\* "<=" for "<": a queue of maxlen input_time never gets long enough
NotEnoughInput_OffByOne(st, track_id) ==
    track_id \notin DOMAIN st.kf /\ Len(st.queue[track_id]) <= input_time

\* track_id not in track_id_kf_model_dict and len(queue) < input_time
NotEnoughInput(st, track_id) ==
    track_id \notin DOMAIN st.kf /\ Len(st.queue[track_id]) < input_time

\* missing time written without the test "not in track_id_missing_time_dict"
MissingTime_Overwritten(st, track_id, stamp) == stamp

\* track_id_missing_time_dict[track_id] after "update missing time"
MissingTime(st, track_id, stamp) ==
    IF track_id \in DOMAIN st.missing THEN st.missing[track_id] ELSE stamp

\* one second late
StopPublish_OneLate(elapsed) == elapsed > duration_inactive_to_stop_publish + 1

\* ">=" for ">"
StopPublish_AtThreshold(elapsed) == elapsed >= duration_inactive_to_stop_publish

\* the removal threshold where the stop-publish threshold belongs
StopPublish_RemoveThreshold(elapsed) == elapsed > duration_inactive_to_remove

\* (now - missing_time).nanoseconds/1000000000 > duration_inactive_to_stop_publish
StopPublish(elapsed) == elapsed > duration_inactive_to_stop_publish

\* the stop-publish threshold where the removal threshold belongs
Remove_StopPublishThreshold(elapsed) == elapsed > duration_inactive_to_stop_publish

\* removal from the threshold on, not after it
Remove_AtThreshold(elapsed) == elapsed >= duration_inactive_to_remove

\* "<" for ">"
Remove_Reversed(elapsed) == elapsed < duration_inactive_to_remove

\* no removal at all
Remove_Never(elapsed) == FALSE

\* (now - missing_time).nanoseconds/1000000000 > duration_inactive_to_remove
Remove(elapsed) == elapsed > duration_inactive_to_remove

\* body of the loop "update queue" for one tbox
IngestBox(st, tbox, stamp) ==
    IF st.raised # "none" THEN st
    ELSE IF ~Tracked(tbox) THEN st
    ELSE
      LET track_id == tbox.track_id
          q == IF track_id \in DOMAIN st.queue THEN st.queue[track_id] ELSE <<>>
          n == IF track_id \in DOMAIN st.observed THEN st.observed[track_id] ELSE 0
          s1 == [st EXCEPT
                   !.queue = Put(@, track_id, DequeAppend(q, tbox.center3d, input_time)),
                   !.color = Put(@, track_id, tbox.color),
                   !.alive = Append(@, track_id),
                   !.missing = Del(@, track_id),
                   !.observed = Put(@, track_id, n + 1)]
      IN IF track_id \in DOMAIN s1.ts
         THEN LET window == s1.ts[track_id]
              IN IF WrongTimeOrder(tbox, window) THEN s1
                 ELSE IF SinceOldest(window, stamp) = 0
                      THEN [s1 EXCEPT !.raised = "ZeroDivisionError"]
                      ELSE [s1 EXCEPT
                              !.fps = Put(@, track_id, AverageFps(window, stamp)),
                              !.ts = Put(@, track_id, DequeAppend(window, stamp, fps_est_time))]
         ELSE [s1 EXCEPT !.ts = Put(@, track_id, DequeAppend(<<>>, stamp, fps_est_time))]

\* for _, tbox in enumerate(msg.tracked_boxes)
RECURSIVE UpdateQueue(_, _, _)
UpdateQueue(st, msg, i) ==
    IF i > Len(msg.tracked_boxes) THEN st
    ELSE UpdateQueue(IngestBox(st, msg.tracked_boxes[i], msg.stamp), msg, i + 1)

\* a new filter for every call
Tracker_Rebuilt(st, track_id, past) ==
    PredictUpdate(KalmanFilter(Last(past)), past)

\* the filter of track_id after the call: a new one fed with the whole queue
\* when the track has none, else the stored one fed with the last observation
Tracker(st, track_id, past) ==
    IF track_id \notin DOMAIN st.kf
    THEN PredictUpdate(KalmanFilter(Last(past)), past)
    ELSE PredictUpdate(st.kf[track_id], <<Last(past)>>)

\* body of the loop "predict" for one entry of alive_track_id_list
PredictTrack(st, track_id) ==
    IF st.raised # "none" THEN st
    ELSE IF NotEnoughInput(st, track_id) THEN st
    ELSE
      LET past == XY(st.queue[track_id])
          tracker == Tracker(st, track_id, past)
          s1 == [st EXCEPT !.kf = Put(@, track_id, tracker),
                           !.pos = Put(@, track_id, Last(past))]
      IN IF track_id \notin DOMAIN s1.fps
         THEN [s1 EXCEPT !.raised = "KeyError"]
         ELSE LET v == Velocity(tracker, s1.fps[track_id])
                  h == IF track_id \in DOMAIN s1.vel_hist
                       THEN s1.vel_hist[track_id] ELSE <<>>
              IN [s1 EXCEPT
                    !.vel = Put(@, track_id, v),
                    !.vel_hist = Put(@, track_id,
                        DequeAppend(h, <<Last(s1.ts[track_id]), v>>, fps_est_time))]

\* the oldest entry of the queue, not the newest
RawPosition_Oldest(queue) == XY(queue)[1]

\* np.array(track_input_queue_dict[track_id])[-1,:2]: "use raw position"
RawPosition(queue) == Last(XY(queue))

\* for track_id in alive_track_id_list
RECURSIVE Predict(_, _)
Predict(st, i) ==
    IF i > Len(st.alive) THEN st ELSE Predict(PredictTrack(st, st.alive[i]), i + 1)

\* the colour of a deleted track is left behind
DeleteTracks_KeepsColor(st, deleted) ==
    LET Keep(d) == [t \in (DOMAIN d) \ deleted |-> d[t]]
    IN [st EXCEPT !.fps = Keep(@), !.ts = Keep(@), !.queue = Keep(@),
                  !.kf = Keep(@), !.observed = Keep(@), !.missing = Keep(@)]

\* "if missing long time, delete track", for the tracks deleted
DeleteTracks(st, deleted) ==
    LET Keep(d) == [t \in (DOMAIN d) \ deleted |-> d[t]]
    IN [st EXCEPT !.fps = Keep(@), !.ts = Keep(@), !.queue = Keep(@),
                  !.color = Keep(@), !.kf = Keep(@),
                  !.observed = Keep(@), !.missing = Keep(@)]

\* "clean up missed track if necessary".  Every iteration reads and writes
\* the entries of its own track_id only, so the order in which the set
\* missing_track_id_list is walked does not matter.
CleanUp(st, stamp) ==
    IF st.raised # "none" THEN st
    ELSE
      LET missing_track_id_list == (DOMAIN st.queue) \ Range(st.alive)
          missing_time == [t \in (DOMAIN st.missing) \cup missing_track_id_list |->
                              MissingTime(st, t, stamp)]
          stop_publish_track_id_list ==
              {t \in missing_track_id_list : StopPublish(stamp - missing_time[t])}
          deleted == {t \in missing_track_id_list : Remove(stamp - missing_time[t])}
          s1 == DeleteTracks([st EXCEPT !.missing = missing_time], deleted)
          publish_missing_track_id_list ==
              missing_track_id_list \ stop_publish_track_id_list
          dead_reckoned == publish_missing_track_id_list \cap DOMAIN s1.kf
      IN IF \E t \in dead_reckoned : t \notin DOMAIN s1.fps
         THEN [s1 EXCEPT !.raised = "KeyError"]
         ELSE [s1 EXCEPT
                 !.pos = [t \in (DOMAIN @) \cup dead_reckoned |->
                            IF t \in dead_reckoned
                            THEN RawPosition(s1.queue[t]) ELSE @[t]],
                 !.vel = [t \in (DOMAIN @) \cup dead_reckoned |->
                            IF t \in dead_reckoned
                            THEN Velocity(s1.kf[t], s1.fps[t]) ELSE @[t]]]

\* tracked_boxes_cb(msg) up to the call of pub_result, on dictionaries st
CallbackOn(st, msg) == CleanUp(Predict(UpdateQueue(st, msg, 1), 1), msg.stamp)

\* tracked_boxes_cb(msg) up to the call of pub_result
Callback(msg) == CallbackOn(Self, msg)

\* the dictionaries a callback leaves, with the locals of the next one
Entry(st) == [st EXCEPT !.alive = <<>>, !.pos = EmptyDict, !.vel = EmptyDict]

\* the messages that can arrive next
Messages ==
    IF raised = "none" /\ cycles < detector.msgs
    THEN TrackedBoxes(detector, cycles + 1) ELSE {}

\* the state after __init__, in front of one of the detectors
InitWith(detectors) ==
    /\ detector \in detectors
    /\ input_time \in 1..MaxInputTime
    /\ fps_est_time \in 1..MaxFpsEstTime
    /\ duration_inactive_to_remove \in 0..MaxDuration
    /\ duration_inactive_to_stop_publish \in 0..MaxDuration
    /\ track_input_queue_dict = EmptyDict
    /\ track_color_dict = EmptyDict
    /\ track_id_kf_model_dict = EmptyDict
    /\ track_id_missing_time_dict = EmptyDict
    /\ track_predict_fps = EmptyDict
    /\ track_prev_predict_timestamp = EmptyDict
    /\ track_vel_hist_dict = EmptyDict
    /\ now = 0
    /\ alive_track_id_list = <<>>
    /\ track_pos_dict = EmptyDict
    /\ track_vel_dict = EmptyDict
    /\ raised = "none"
    /\ observed = EmptyDict
    /\ cycles = 0

Init == InitWith(Detectors)

\* One delivery of a TrackedBoxes message to tracked_boxes_cb.  When no
\* exception is raised the locals are what pub_result and vis_result receive.
Deliver(msg) ==
    /\ \E st \in {Callback(msg)} :
            /\ track_input_queue_dict' = st.queue
            /\ track_color_dict' = st.color
            /\ track_id_kf_model_dict' = st.kf
            /\ track_id_missing_time_dict' = st.missing
            /\ track_predict_fps' = st.fps
            /\ track_prev_predict_timestamp' = st.ts
            /\ track_vel_hist_dict' = st.vel_hist
            /\ now' = msg.stamp
            /\ alive_track_id_list' = st.alive
            /\ track_pos_dict' = st.pos
            /\ track_vel_dict' = st.vel
            /\ raised' = st.raised
            /\ observed' = st.observed
    /\ UNCHANGED <<detector, input_time, fps_est_time, duration_inactive_to_remove,
                   duration_inactive_to_stop_publish>>

\* tracked_boxes_cb on one of the messages of the detector
tracked_boxes_cb ==
    /\ raised = "none"
    /\ cycles < detector.msgs
    /\ \E msg \in Messages : Deliver(msg)
    /\ cycles' = cycles + 1

Next == tracked_boxes_cb

Spec == Init /\ [][Next]_vars

\* ---- the node in front of a detector that sees nobody any more ----
\* one track, one box a message, MaxLiveCycles messages with boxes
LiveDetector == [ids |-> {7}, boxes |-> 1, msgs |-> MaxLiveCycles]

InitLive == InitWith({LiveDetector})

\* a stamp past every missing time of Times by more than every threshold
LateStamp == MaxTime + MaxDuration + 1

\* tracked_boxes_cb on a message without boxes, stamped stamp, once the
\* detector has sent its messages with boxes
tracked_boxes_cb_empty(stamp) ==
    /\ raised = "none"
    /\ cycles = detector.msgs
    /\ Deliver([stamp |-> stamp, tracked_boxes |-> <<>>])
    /\ UNCHANGED cycles

NextLive ==
    \/ tracked_boxes_cb
    \/ \E stamp \in Times \cup {LateStamp} : tracked_boxes_cb_empty(stamp)

\* The executor calls tracked_boxes_cb for every message it takes from the
\* subscription: messages that keep arriving are delivered.  The messages
\* stamped LateStamp keep arriving.
SpecLive ==
    InitLive /\ [][NextLive]_vars /\ WF_vars(tracked_boxes_cb_empty(LateStamp))

\* ---- vocabulary of the properties ----
\* the ids with a record (a position queue)
Registry == DOMAIN track_input_queue_dict

\* the last callback ran to its end: pub_result received the locals
Completed == cycles > 0 /\ raised = "none"

\* how often track_id is in alive_track_id_list
Detections(list, track_id) == Cardinality({i \in DOMAIN list : list[i] = track_id})

\* batch timestamp - missing_since, for a track whose missing_since is set
Elapsed(track_id) == now - track_id_missing_time_dict[track_id]

\* a track with a filter that is missing and within the stop-publish threshold
DeadReckoned(track_id) ==
    /\ track_id \in DOMAIN track_id_kf_model_dict
    /\ track_id \in DOMAIN track_id_missing_time_dict
    /\ Elapsed(track_id) <= duration_inactive_to_stop_publish

\* a missing track past the stop-publish threshold and within the removal one
Suppressed(track_id) ==
    /\ track_id \in DOMAIN track_id_missing_time_dict
    /\ Elapsed(track_id) > duration_inactive_to_stop_publish
    /\ Elapsed(track_id) <= duration_inactive_to_remove

\* d and e agree on track_id: the same entry in both or none in either
SameEntry(d, e, track_id) ==
    /\ track_id \in DOMAIN d <=> track_id \in DOMAIN e
    /\ track_id \in DOMAIN d => d[track_id] = e[track_id]

\* ---- C1 ----
\* C1 as claimed: after every completed cycle, a track with a filter that is
\* missing with elapsed absence <= duration_inactive_to_stop_publish is in
\* the alive_track_id_list handed to pub_result.
C1_DeadReckonedInAliveList ==
    Completed =>
        \A t \in TrackIds :
            DeadReckoned(t) => t \in Range(alive_track_id_list)

\* C1 amended: such a track, when the cycle has not removed it, is not in
\* alive_track_id_list (the list holds the tracks detected in the batch
\* only) but has an entry in track_pos_dict, the last raw position of its
\* queue, and an entry in track_vel_dict.
C1_DeadReckonedInPosAndVel ==
    Completed =>
        \A t \in TrackIds :
            DeadReckoned(t) =>
                /\ t \notin Range(alive_track_id_list)
                /\ t \in DOMAIN track_pos_dict
                /\ t \in DOMAIN track_vel_dict
                /\ track_pos_dict[t] = Last(XY(track_input_queue_dict[t]))

C1_Witness ==
    /\ Completed
    /\ \E t \in TrackIds : DeadReckoned(t)
    /\ alive_track_id_list # <<>>

\* ---- C2 ----
\* C2: in every completed cycle, a track that is missing with elapsed absence
\* in (duration_inactive_to_stop_publish, duration_inactive_to_remove] is in
\* none of alive_track_id_list, track_pos_dict, track_vel_dict, and the cycle
\* leaves its queue, colour, filter, fps and timestamp window as they were.
C2_SuppressedKeptUnchanged ==
    [][Completed' =>
         \A t \in Registry :
            Suppressed(t)' =>
                /\ t \notin Range(alive_track_id_list')
                /\ t \notin DOMAIN track_pos_dict'
                /\ t \notin DOMAIN track_vel_dict'
                /\ t \in Registry'
                /\ SameEntry(track_input_queue_dict, track_input_queue_dict', t)
                /\ SameEntry(track_color_dict, track_color_dict', t)
                /\ SameEntry(track_id_kf_model_dict, track_id_kf_model_dict', t)
                /\ SameEntry(track_predict_fps, track_predict_fps', t)
                /\ SameEntry(track_prev_predict_timestamp,
                             track_prev_predict_timestamp', t)]_vars

C2_Witness ==
    /\ Completed
    /\ \E t \in DOMAIN track_id_kf_model_dict : Suppressed(t)

\* ---- C3 ----
\* C3: a cycle in which a missing track's elapsed absence exceeds
\* duration_inactive_to_remove deletes its queue, colour, filter, fps,
\* timestamp window and missing_since; a missing track within the threshold
\* keeps its record; so after a completed cycle no record has an elapsed
\* absence above the threshold.
C3_RemovedInTheSameCycle ==
    [][Completed' =>
         /\ \A t \in Registry' :
               t \in DOMAIN track_id_missing_time_dict' =>
                   Elapsed(t)' <= duration_inactive_to_remove
         /\ \A t \in Registry \ Range(alive_track_id_list') :
               LET since == IF t \in DOMAIN track_id_missing_time_dict
                            THEN track_id_missing_time_dict[t] ELSE now'
               IN IF now' - since > duration_inactive_to_remove
                  THEN /\ t \notin Registry'
                       /\ t \notin DOMAIN track_color_dict'
                       /\ t \notin DOMAIN track_id_kf_model_dict'
                       /\ t \notin DOMAIN track_predict_fps'
                       /\ t \notin DOMAIN track_prev_predict_timestamp'
                       /\ t \notin DOMAIN track_id_missing_time_dict'
                  ELSE /\ t \in Registry'
                       /\ track_id_missing_time_dict'[t] = since]_vars

\* a track that had a filter has been removed
C3_Witness ==
    /\ Completed
    /\ \E t \in DOMAIN track_vel_hist_dict : t \notin Registry

\* ---- C4 ----
\* C4 as claimed: after a completed cycle nothing is keyed by a track id
\* that has no record, the velocity history included, and a record without
\* a filter (a new life) has no velocity history.
C4_RemovalDropsVelocityHistory ==
    Completed =>
        \A t \in TrackIds :
            /\ t \notin Registry =>
                   /\ t \notin DOMAIN track_color_dict
                   /\ t \notin DOMAIN track_id_kf_model_dict
                   /\ t \notin DOMAIN track_id_missing_time_dict
                   /\ t \notin DOMAIN track_predict_fps
                   /\ t \notin DOMAIN track_prev_predict_timestamp
                   /\ t \notin DOMAIN track_vel_hist_dict
            /\ t \in Registry \ DOMAIN track_id_kf_model_dict =>
                   t \notin DOMAIN track_vel_hist_dict

\* ---- C5 ----
\* C5: after every completed cycle a record has missing_since iff its track
\* was not detected in the batch; missing_since is the batch stamp of the
\* first cycle of the absence and later absent cycles do not overwrite it.
C5_MissingSince ==
    [][Completed' =>
         \A t \in Registry' :
            /\ t \in DOMAIN track_id_missing_time_dict'
                   <=> t \notin Range(alive_track_id_list')
            /\ t \in DOMAIN track_id_missing_time_dict' =>
                   track_id_missing_time_dict'[t] =
                       IF t \in DOMAIN track_id_missing_time_dict
                       THEN track_id_missing_time_dict[t] ELSE now']_vars

\* a track absent over cycles with a later batch stamp than its first absence
C5_Witness ==
    /\ Completed
    /\ \E t \in DOMAIN track_id_missing_time_dict :
           track_id_missing_time_dict[t] < now

\* ---- C6 ----
\* C6: after every completed cycle a record has a filter iff its track has
\* been detected at least input_time times since the record was created,
\* and a cycle that keeps a record keeps its filter.
C6_FilterIffEnoughObservations ==
    [][Completed' =>
         \A t \in Registry' :
            /\ t \in DOMAIN track_id_kf_model_dict' <=> observed'[t] >= input_time
            /\ (t \in DOMAIN track_id_kf_model_dict /\ Completed)
                   => t \in DOMAIN track_id_kf_model_dict']_vars

\* a filter created in the cycle of the input_time-th detection, the track
\* having been missing in between
C6_Witness ==
    /\ Completed
    /\ \E t \in DOMAIN track_id_kf_model_dict :
           /\ observed[t] = input_time
           /\ t \in Range(alive_track_id_list)
           /\ input_time > 1
           /\ Len(track_id_kf_model_dict[t].fed) = input_time

\* ---- C7 ----
\* C7: the position queue never holds more than input_time entries, the
\* timestamp window and the velocity history never more than fps_est_time,
\* and a push onto a full queue drops its oldest entry.
C7_BoundedDeques ==
    [][/\ \A t \in Registry' :
              Len(track_input_queue_dict'[t]) <= input_time
       /\ \A t \in DOMAIN track_prev_predict_timestamp' :
              Len(track_prev_predict_timestamp'[t]) <= fps_est_time
       /\ \A t \in DOMAIN track_vel_hist_dict' :
              Len(track_vel_hist_dict'[t]) <= fps_est_time
       /\ \A t \in Registry :
              Detections(alive_track_id_list', t) = 1 =>
                  LET q == track_input_queue_dict[t]
                      r == track_input_queue_dict'[t]
                  IN /\ Last(r) \notin Range(q)
                     /\ r = Append(IF Len(q) < input_time THEN q ELSE Tail(q),
                                   Last(r))]_vars

\* a record whose full queue was pushed onto
C7_Witness ==
    \E t \in Registry :
        /\ observed[t] > input_time
        /\ Len(track_input_queue_dict[t]) = input_time
        /\ Len(track_prev_predict_timestamp[t]) = fps_est_time
        /\ t \in DOMAIN track_vel_hist_dict
        /\ Len(track_vel_hist_dict[t]) = fps_est_time

\* ---- C8 ----
\* C8 as claimed: no message is fatal, every callback runs to its end.
C8_NoInputIsFatal == raised = "none"

\* ---- C9 ----
\* the window after k pushes of stamp
RECURSIVE Pushed(_, _, _)
Pushed(window, stamp, k) ==
    IF k = 0 THEN window
    ELSE DequeAppend(Pushed(window, stamp, k - 1), stamp, fps_est_time)

\* the cycle recomputed the fps of track_id, a track with a window
Recomputed(t) ==
    /\ t \in DOMAIN track_prev_predict_timestamp
    /\ t \in DOMAIN track_prev_predict_timestamp'
    /\ track_prev_predict_timestamp'[t] # track_prev_predict_timestamp[t]

\* C9 as claimed, for windows of capacity >= 2: a recomputed fps is
\* (n - 1) / (newest - oldest) of the window that includes the new stamp.
C9_FpsOfWindowWithNewSample ==
    [][\A t \in TrackIds :
          (Recomputed(t) /\ fps_est_time >= 2) =>
              LET w == track_prev_predict_timestamp'[t]
              IN /\ Last(w) - w[1] # 0
                 /\ track_predict_fps'[t] = Div(Len(w) - 1, Last(w) - w[1])]_vars

\* C9 amended: a recomputed fps is m / (batch stamp - oldest), m and oldest
\* being the length and the first entry of the window as it is before the
\* batch stamp is pushed; the window may be full, and its first entry is
\* then the one the push drops.
C9_FpsOfWindowBeforePush ==
    [][\A t \in TrackIds :
          Recomputed(t) =>
              \E k \in 0..(Detections(alive_track_id_list', t) - 1) :
                  LET w == Pushed(track_prev_predict_timestamp[t], now', k)
                  IN /\ track_prev_predict_timestamp'[t]
                            = DequeAppend(w, now', fps_est_time)
                     /\ now' - w[1] # 0
                     /\ track_predict_fps'[t] = Div(Len(w), now' - w[1])]_vars

\* an fps computed on a full window whose first entry the push dropped: it is
\* not (n - 1) / (newest - oldest) of the window kept
C9_Witness ==
    /\ Completed
    /\ fps_est_time >= 2
    /\ \E t \in DOMAIN track_predict_fps :
           LET w == track_prev_predict_timestamp[t]
           IN /\ Len(w) = fps_est_time
              /\ Last(w) = now
              /\ Last(w) - w[1] # 0
              /\ track_predict_fps[t] # Div(Len(w) - 1, Last(w) - w[1])

\* ---- C10 ----
\* C10 as claimed: a frequency update with zero elapsed time since the
\* oldest stamp of the window is withheld; no division by zero occurs.
C10_NoDivisionByZero == raised # "ZeroDivisionError"

\* ---- C11 ----
\* C11 as claimed: a message that is processed to its end and then
\* delivered again, unchanged, leaves every timestamp window as the first
\* delivery left it.
C11_SameBatchTwice ==
    \A msg \in Messages :
        \A first \in {Callback(msg)} :
            first.raised = "none" =>
                CallbackOn(Entry(first), msg).ts = first.ts

\* ---- C12 ----
\* the dictionaries after the first k boxes of msg
IngestedUpTo(msg, k) ==
    UpdateQueue(Self, [msg EXCEPT !.tracked_boxes = SubSeq(@, 1, k)], 1)

\* box i of msg is a person or obstacle of a track with a window, stamped
\* strictly before the newest stamp of the window
WrongOrderBox(msg, i) ==
    LET tbox == msg.tracked_boxes[i]
        before == IngestedUpTo(msg, i - 1)
    IN /\ before.raised = "none"
       /\ tbox.class_name \in {"person", "obstacle"}
       /\ tbox.track_id \in DOMAIN before.ts
       /\ tbox.stamp < Last(before.ts[tbox.track_id])

\* C12: a box of a known track stamped strictly before the newest stamp
\* recorded for the track has its position pushed onto the queue and its
\* track listed as alive, and leaves the fps and the timestamp window of the
\* track as they are; the track is alive at the end of the cycle.
C12_WrongOrderBoxKeepsFps ==
    \A msg \in Messages :
        \A i \in DOMAIN msg.tracked_boxes :
            WrongOrderBox(msg, i) =>
                LET tbox == msg.tracked_boxes[i]
                    t == tbox.track_id
                    before == IngestedUpTo(msg, i - 1)
                    after == IngestedUpTo(msg, i)
                    done == Callback(msg)
                IN /\ after.raised = "none"
                   /\ Last(after.queue[t]) = tbox.center3d
                   /\ Len(after.queue[t]) =
                          IF Len(before.queue[t]) < input_time
                          THEN Len(before.queue[t]) + 1 ELSE input_time
                   /\ after.alive = Append(before.alive, t)
                   /\ after.ts[t] = before.ts[t]
                   /\ SameEntry(before.fps, after.fps, t)
                   /\ done.raised = "none" =>
                          /\ t \in Range(done.alive)
                          /\ t \notin DOMAIN done.missing

\* a record with an fps and a message that holds only a wrong-order box of it
C12_Witness ==
    \E msg \in Messages :
        /\ Len(msg.tracked_boxes) = 1
        /\ WrongOrderBox(msg, 1)
        /\ msg.tracked_boxes[1].track_id \in DOMAIN track_predict_fps
        /\ Callback(msg).raised = "none"

\* ---- C13 ----
\* C13: a completed cycle that leaves a track dead-reckoned (filter, missing,
\* elapsed absence <= duration_inactive_to_stop_publish) leaves its filter,
\* queue, timestamp window and fps as they were; track_pos_dict holds the
\* last entry of its queue and track_vel_dict the velocity of the unchanged
\* filter times the stored fps; after a cycle that also left it
\* dead-reckoned both are what that cycle emitted.
C13_DeadReckoningHoldsState ==
    [][\A t \in Registry :
         (Completed' /\ DeadReckoned(t)') =>
             /\ SameEntry(track_id_kf_model_dict, track_id_kf_model_dict', t)
             /\ SameEntry(track_input_queue_dict, track_input_queue_dict', t)
             /\ SameEntry(track_prev_predict_timestamp,
                          track_prev_predict_timestamp', t)
             /\ SameEntry(track_predict_fps, track_predict_fps', t)
             /\ track_pos_dict'[t] =
                    XY(track_input_queue_dict[t])[Len(track_input_queue_dict[t])]
             /\ track_vel_dict'[t] =
                    Velocity(track_id_kf_model_dict[t], track_predict_fps[t])
             /\ (Completed /\ DeadReckoned(t)) =>
                    /\ track_pos_dict'[t] = track_pos_dict[t]
                    /\ track_vel_dict'[t] = track_vel_dict[t]]_vars

\* a second dead-reckoned cycle in a row, of a track with two queue entries
C13_Witness ==
    /\ Completed
    /\ \E t \in Registry :
        /\ DeadReckoned(t)
        /\ Elapsed(t) >= 1
        /\ Len(track_input_queue_dict[t]) >= 2

\* ---- C14 ----
\* C14: in every completed cycle, a track that had no filter and is not
\* detected is in none of alive_track_id_list, track_pos_dict and
\* track_vel_dict, whatever its elapsed absence, and it stays in the registry
\* exactly when its elapsed absence is <= duration_inactive_to_remove.
C14_NoFilterNeverEmitted ==
    [][\A t \in Registry :
         (/\ Completed'
          /\ t \notin DOMAIN track_id_kf_model_dict
          /\ t \notin Range(alive_track_id_list')) =>
             /\ t \notin DOMAIN track_pos_dict'
             /\ t \notin DOMAIN track_vel_dict'
             /\ t \notin DOMAIN track_id_kf_model_dict'
             /\ t \in Registry' <=>
                    \/ /\ t \notin DOMAIN track_id_missing_time_dict
                       /\ 0 <= duration_inactive_to_remove
                    \/ /\ t \in DOMAIN track_id_missing_time_dict
                       /\ now' - track_id_missing_time_dict[t]
                              <= duration_inactive_to_remove]_vars

\* a missing record without a filter, within the stop-publish threshold:
\* with a filter it would be in the output
C14_Witness ==
    /\ Completed
    /\ \E t \in Registry :
        /\ t \notin DOMAIN track_id_kf_model_dict
        /\ t \in DOMAIN track_id_missing_time_dict
        /\ Elapsed(t) <= duration_inactive_to_stop_publish

\* ---- C15 ----
\* seq continues old: the same initial state, the feeds of old and more
ContinuesFilter(old, new) ==
    /\ new.x0 = old.x0
    /\ Len(new.fed) > Len(old.fed)
    /\ SubSeq(new.fed, 1, Len(old.fed)) = old.fed

\* new is old after k pushes on a deque of input_time entries
KeepsQueue(old, new, k) ==
    /\ Len(new) = IF Len(old) + k < input_time THEN Len(old) + k ELSE input_time
    /\ \A j \in 1..(Len(new) - k) : new[j] = old[Len(old) - (Len(new) - k) + j]

\* C15: in every completed cycle, a missing track that is detected has its
\* missing time deleted and its queue kept and pushed on; when it has a
\* filter, the filter is the stored one fed further, never a new one, and the
\* track is in track_pos_dict with the last observed position and in
\* track_vel_dict with the velocity of the fed filter times its fps.
C15_ReappearanceReusesRecord ==
    [][\A t \in Registry :
         (/\ Completed'
          /\ t \in DOMAIN track_id_missing_time_dict
          /\ t \in Range(alive_track_id_list')) =>
             /\ t \notin DOMAIN track_id_missing_time_dict'
             /\ t \in Registry'
             /\ KeepsQueue(track_input_queue_dict[t], track_input_queue_dict'[t],
                           Detections(alive_track_id_list', t))
             /\ t \in DOMAIN track_id_kf_model_dict =>
                    /\ t \in DOMAIN track_id_kf_model_dict'
                    /\ ContinuesFilter(track_id_kf_model_dict[t],
                                       track_id_kf_model_dict'[t])
                    /\ t \in DOMAIN track_pos_dict'
                    /\ t \in DOMAIN track_vel_dict'
                    /\ \E p \in {Last(track_input_queue_dict'[t])} :
                          /\ track_pos_dict'[t] = <<p[1], p[2]>>
                          /\ Last(track_id_kf_model_dict'[t].fed) = <<p[1], p[2]>>
                    /\ track_vel_dict'[t] =
                          Velocity(track_id_kf_model_dict'[t],
                                   track_predict_fps'[t])]_vars

\* a detected track whose filter was fed before this cycle and not in the
\* cycle before: its record waited, missing, and is fed again
C15_Witness ==
    /\ Completed
    /\ \E t \in Range(alive_track_id_list) :
        /\ t \in DOMAIN track_id_kf_model_dict
        /\ \E f \in {track_id_kf_model_dict[t].fed} :
              /\ Len(f) > input_time
              /\ f[Len(f)][1] = cycles
              /\ f[Len(f) - 1][1] < cycles - 1

\* ---- C16 ----
\* the detector has sent its last box and track_id is missing since a time
\* that the stamps still arriving exceed by more than the removal threshold
AbsentForGood(track_id) ==
    /\ raised = "none"
    /\ cycles = detector.msgs
    /\ track_id \in Registry
    /\ track_id \in DOMAIN track_id_missing_time_dict
    /\ track_id_missing_time_dict[track_id] + duration_inactive_to_remove
           < LateStamp

\* track_id has no record and is in no output
Evicted(track_id) ==
    /\ track_id \notin Registry
    /\ track_id \notin DOMAIN track_id_kf_model_dict
    /\ track_id \notin Range(alive_track_id_list)
    /\ track_id \notin DOMAIN track_pos_dict
    /\ track_id \notin DOMAIN track_vel_dict

\* C16: a track that stays absent from every batch, while batches keep
\* arriving whose stamps exceed its missing time by more than
\* duration_inactive_to_remove, is eventually removed from the registry and
\* out of the output, and stays so.
C16_EventuallyEvicted ==
    \A t \in TrackIds : AbsentForGood(t) ~> [] Evicted(t)

\* a track that had a filter has been removed by a message stamped LateStamp
\* or before it
C16_Witness ==
    /\ raised = "none"
    /\ cycles = detector.msgs
    /\ now = LateStamp
    /\ duration_inactive_to_remove = MaxDuration
    /\ \E t \in DOMAIN track_vel_hist_dict : Evicted(t)

\* ---- C17 ----
\* a box of a class that is neither person nor obstacle
Irrelevant(tbox) == tbox.class_name \notin {"person", "obstacle"}

KeepRelevant(tbox) == ~Irrelevant(tbox)

\* msg with the irrelevant boxes deleted
WithoutIrrelevant(msg) ==
    [msg EXCEPT !.tracked_boxes = SelectSeq(@, KeepRelevant)]

\* C17: a message with boxes that are neither person nor obstacle leaves the
\* dictionaries, the locals handed to pub_result and the exception raised, if
\* any, exactly as the message with these boxes deleted does.
C17_IrrelevantClassNoEffect ==
    \A msg \in Messages :
        WithoutIrrelevant(msg) # msg =>
            Callback(msg) = Callback(WithoutIrrelevant(msg))

\* a message with an irrelevant box of a missing track that has a filter:
\* the track is still missing after it
C17_Witness ==
    \E msg \in Messages :
        \E i \in DOMAIN msg.tracked_boxes :
            \E t \in {msg.tracked_boxes[i].track_id} :
                /\ Irrelevant(msg.tracked_boxes[i])
                /\ t \in DOMAIN track_id_missing_time_dict
                /\ t \in DOMAIN track_id_kf_model_dict
                /\ Callback(msg).raised = "none"
                /\ t \in DOMAIN Callback(msg).missing

\* ---- C19 ----
\* C19 as claimed: in every completed cycle, the filter a detected track
\* already had is fed once for every detection of the track in the batch, in
\* addition to what it was fed before, the feeds being the positions pushed
\* onto the queue in the cycle, each once and in their order.
C19_OneStepPerObservation ==
    [][\A t \in DOMAIN track_id_kf_model_dict :
         (Completed' /\ t \in Range(alive_track_id_list')) =>
             \E k \in {Detections(alive_track_id_list', t)} :
             \E old \in {track_id_kf_model_dict[t].fed} :
             \E new \in {track_id_kf_model_dict'[t].fed} :
             \E q \in {XY(track_input_queue_dict'[t])} :
                 /\ Len(new) = Len(old) + k
                 /\ SubSeq(new, 1, Len(old)) = old
                 /\ \A i, j \in (Len(old) + 1)..Len(new) :
                        i # j => new[i] # new[j]
                 /\ \A j \in 1..k :
                        j <= Len(q) => new[Len(new) - j + 1] = q[Len(q) - j + 1]]_vars

\* ---- C20 ----
\* the stop-publish threshold is greater than the removal threshold
Inverted == duration_inactive_to_stop_publish > duration_inactive_to_remove

\* C20 as claimed: with inverted thresholds, after every completed cycle no
\* track that is missing is in track_pos_dict or track_vel_dict.
C20_NoDeadReckoningWhenInverted ==
    (Completed /\ Inverted) =>
        \A t \in DOMAIN track_id_missing_time_dict :
            /\ t \notin DOMAIN track_pos_dict
            /\ t \notin DOMAIN track_vel_dict

\* C20 amended: with inverted thresholds, after every completed cycle every
\* track with a filter that is missing and still in the registry is in
\* track_pos_dict and track_vel_dict, its elapsed absence being <=
\* duration_inactive_to_remove: it is the suppressed state that has no width,
\* a track is dead-reckoned until the cycle that removes it.
C20_NoSuppressionWhenInverted ==
    (Completed /\ Inverted) =>
        \A t \in DOMAIN track_id_missing_time_dict :
            /\ t \in Registry
            /\ Elapsed(t) <= duration_inactive_to_remove
            /\ ~Suppressed(t)
            /\ t \in DOMAIN track_id_kf_model_dict =>
                   /\ t \in DOMAIN track_pos_dict
                   /\ t \in DOMAIN track_vel_dict
                   /\ t \notin Range(alive_track_id_list)

\* inverted thresholds and a missing track with a filter, after a cycle that
\* removed a track or found none to remove
C20_Witness ==
    /\ Completed
    /\ Inverted
    /\ \E t \in DOMAIN track_id_missing_time_dict :
          t \in DOMAIN track_id_kf_model_dict

\* ---- C21 ----
\* C21: after every completed cycle track_pos_dict and track_vel_dict have
\* the same keys: the detected tracks that have a filter, and the missing
\* tracks that have a filter (the cycle has not deleted them) with elapsed
\* absence <= duration_inactive_to_stop_publish.
C21_EmittedKeys ==
    Completed =>
        /\ DOMAIN track_pos_dict = DOMAIN track_vel_dict
        /\ DOMAIN track_pos_dict =
               {t \in Range(alive_track_id_list) :
                    t \in DOMAIN track_id_kf_model_dict}
               \cup {t \in Registry \ Range(alive_track_id_list) :
                         DeadReckoned(t)}
        /\ \A t \in DOMAIN track_pos_dict : t \in Registry

\* a detected track short of input_time observations next to an emitted
\* track, the thresholds inverted
C21_Witness ==
    /\ Completed
    /\ Inverted
    /\ \E t \in Range(alive_track_id_list) :
          /\ t \notin DOMAIN track_id_kf_model_dict
          /\ Len(track_input_queue_dict[t]) < input_time
    /\ \E t \in DOMAIN track_pos_dict : DeadReckoned(t)

\* ---- C22 ----
\* C22 as claimed: every track that has a filter has an fps.
C22_FilterHasFps ==
    \A t \in DOMAIN track_id_kf_model_dict : t \in DOMAIN track_predict_fps

\* ---- C23 ----
\* C23 as claimed: every stored fps is strictly positive and every
\* timestamp window is non-decreasing.
C23_PositiveFpsOrderedWindow ==
    /\ \A t \in DOMAIN track_predict_fps : track_predict_fps[t].num > 0
    /\ \A t \in DOMAIN track_prev_predict_timestamp :
          \A i, j \in DOMAIN track_prev_predict_timestamp[t] :
              i < j => track_prev_predict_timestamp[t][i]
                           <= track_prev_predict_timestamp[t][j]

\* ---- C24 ----
\* C24: after every completed cycle the ids with a queue, with a colour and
\* with a timestamp window are the same, the ids with a filter, with a
\* missing time and with an fps are among them, and an id that the cycle
\* took out of the registry is in none of the six dictionaries.
C24_KeyConsistency ==
    [][Completed' =>
          /\ DOMAIN track_color_dict' = Registry'
          /\ DOMAIN track_prev_predict_timestamp' = Registry'
          /\ DOMAIN track_id_kf_model_dict' \subseteq Registry'
          /\ DOMAIN track_id_missing_time_dict' \subseteq Registry'
          /\ DOMAIN track_predict_fps' \subseteq Registry'
          /\ \A t \in Registry \ Registry' :
                /\ t \notin DOMAIN track_color_dict'
                /\ t \notin DOMAIN track_prev_predict_timestamp'
                /\ t \notin DOMAIN track_id_kf_model_dict'
                /\ t \notin DOMAIN track_id_missing_time_dict'
                /\ t \notin DOMAIN track_predict_fps']_vars

\* a record without an fps of an id that has a velocity history: the id was
\* deleted with its fps and created again
C24_Witness ==
    /\ Completed
    /\ \E t \in Registry :
          /\ t \notin DOMAIN track_predict_fps
          /\ t \in DOMAIN track_vel_hist_dict
          /\ t \in DOMAIN track_color_dict
          /\ t \in DOMAIN track_prev_predict_timestamp

====
